---- MODULE Spec2Model ----
(***************************************************************************)
(* A model of sass-resolver (src/sass-resolver.js, and its renamed twin    *)
(* src/sass-path-resolver.js): the resolution of a Sass import specifier   *)
(* against a list of include paths.                                        *)
(*                                                                         *)
(* A JavaScript string is a sequence of tokens.  A token is one of the     *)
(* characters the code gives a meaning to ("/", ".", "_", "@", " ", and    *)
(* "%20", the percent-encoding of a space) or a run of ordinary letters    *)
(* ("pkg", "scss").  node:path, node:url and String.prototype.replace are  *)
(* computed on these sequences the way Node computes them on characters.   *)
(***************************************************************************)
EXTENDS Naturals, Sequences, FiniteSets, TLC

(***************************************************************************)
(* Strings.                                                                *)
(***************************************************************************)
SLASH == "/"
DOT == "."

Last(s) == s[Len(s)]

StartsWith(s, t) == Len(s) >= Len(t) /\ SubSeq(s, 1, Len(t)) = t

EndsWithSlash(s) == Len(s) > 0 /\ Last(s) = SLASH

\* The least index from i on at which pattern t occurs in s, or 0.
RECURSIVE IndexOfFrom(_, _, _)
IndexOfFrom(s, t, i) ==
  IF i + Len(t) - 1 > Len(s) THEN 0
  ELSE IF SubSeq(s, i, i + Len(t) - 1) = t THEN i
  ELSE IndexOfFrom(s, t, i + 1)

\* String.prototype.replace(pattern, '') with a string pattern: the first
\* occurrence only.
Replace(s, t) ==
  LET i == IndexOfFrom(s, t, 1)
  IN IF i = 0 THEN s
     ELSE SubSeq(s, 1, i - 1) \o SubSeq(s, i + Len(t), Len(s))

\* String.prototype.split(sep) for a one-character separator.
RECURSIVE Split(_, _)
Split(s, sep) ==
  LET i == IndexOfFrom(s, <<sep>>, 1)
  IN IF i = 0 THEN <<s>>
     ELSE <<SubSeq(s, 1, i - 1)>> \o Split(SubSeq(s, i + 1, Len(s)), sep)

\* Array.prototype.join(sep).
RECURSIVE JoinWith(_, _)
JoinWith(segs, sep) ==
  IF Len(segs) = 0 THEN <<>>
  ELSE IF Len(segs) = 1 THEN segs[1]
  ELSE segs[1] \o <<sep>> \o JoinWith(Tail(segs), sep)

\* The greatest index of token c in s, or 0.
RECURSIVE LastIndexOf(_, _)
LastIndexOf(s, c) ==
  IF Len(s) = 0 THEN 0
  ELSE IF Last(s) = c THEN Len(s)
  ELSE LastIndexOf(SubSeq(s, 1, Len(s) - 1), c)

RECURSIVE StripTrailingSlashes(_)
StripTrailingSlashes(s) ==
  IF EndsWithSlash(s) THEN StripTrailingSlashes(SubSeq(s, 1, Len(s) - 1)) ELSE s

(***************************************************************************)
(* node:path, POSIX flavour.                                               *)
(***************************************************************************)
DOTDOT == <<DOT, DOT>>

IsAbsolute(p) == Len(p) > 0 /\ p[1] = SLASH

\* normalizeString: resolves "." and ".." segments and drops empty ones;
\* above the start, ".." is kept when allowAbove and dropped otherwise.
RECURSIVE NormalizeSegs(_, _, _)
NormalizeSegs(segs, acc, allowAbove) ==
  IF Len(segs) = 0 THEN acc
  ELSE LET h == Head(segs)
           t == Tail(segs)
       IN IF h = <<>> \/ h = <<DOT>> THEN NormalizeSegs(t, acc, allowAbove)
          ELSE IF h = DOTDOT
            THEN IF Len(acc) > 0 /\ Last(acc) # DOTDOT
                   THEN NormalizeSegs(t, SubSeq(acc, 1, Len(acc) - 1), allowAbove)
                 ELSE IF allowAbove
                   THEN NormalizeSegs(t, Append(acc, h), allowAbove)
                 ELSE NormalizeSegs(t, acc, allowAbove)
          ELSE NormalizeSegs(t, Append(acc, h), allowAbove)

\* path.normalize
Normalize(p) ==
  IF Len(p) = 0 THEN <<DOT>>
  ELSE LET abs == IsAbsolute(p)
           body == JoinWith(NormalizeSegs(Split(p, SLASH), <<>>, ~abs), SLASH)
       IN IF Len(body) = 0
            THEN IF abs THEN <<SLASH>>
                 ELSE IF EndsWithSlash(p) THEN <<DOT, SLASH>> ELSE <<DOT>>
          ELSE (IF abs THEN <<SLASH>> ELSE <<>>) \o body
               \o (IF EndsWithSlash(p) THEN <<SLASH>> ELSE <<>>)

\* path.join of a list of strings
PathJoin(args) ==
  LET given == SelectSeq(args, LAMBDA a : Len(a) > 0)
  IN IF Len(given) = 0 THEN <<DOT>> ELSE Normalize(JoinWith(given, SLASH))

\* path.resolve(p), with the process working directory wd
PathResolve(wd, p) ==
  LET full == IF IsAbsolute(p) THEN p ELSE wd \o <<SLASH>> \o p
  IN <<SLASH>> \o JoinWith(NormalizeSegs(Split(full, SLASH), <<>>, FALSE), SLASH)

\* The segments of an absolute, resolved path ("/" has none).
AbsSegs(p) == IF p = <<SLASH>> THEN <<>> ELSE Split(Tail(p), SLASH)

RECURSIVE CommonPrefixLen(_, _)
CommonPrefixLen(a, b) ==
  IF Len(a) = 0 \/ Len(b) = 0 \/ Head(a) # Head(b) THEN 0
  ELSE 1 + CommonPrefixLen(Tail(a), Tail(b))

\* path.relative(from, to), with the process working directory wd
PathRelative(wd, from, to) ==
  LET f == AbsSegs(PathResolve(wd, from))
      t == AbsSegs(PathResolve(wd, to))
      k == CommonPrefixLen(f, t)
  IN JoinWith([i \in 1..(Len(f) - k) |-> DOTDOT] \o SubSeq(t, k + 1, Len(t)), SLASH)

\* path.parse: trailing separators are ignored; ext runs from the last "."
\* of base unless that "." opens base or base is "..".
PathParse(p) ==
  LET abs == IsAbsolute(p)
      q == StripTrailingSlashes(p)
      cut == LastIndexOf(q, SLASH)
      base == SubSeq(q, cut + 1, Len(q))
      dir == IF cut > 1 THEN SubSeq(q, 1, cut - 1)
             ELSE IF abs THEN <<SLASH>> ELSE <<>>
      dot == LastIndexOf(base, DOT)
      ext == IF dot > 1 /\ base # DOTDOT THEN SubSeq(base, dot, Len(base)) ELSE <<>>
  IN [root |-> IF abs THEN <<SLASH>> ELSE <<>>,
      dir |-> dir,
      base |-> base,
      ext |-> ext,
      name |-> SubSeq(base, 1, Len(base) - Len(ext))]

\* path.format
PathFormat(parts) ==
  LET dir == IF Len(parts.dir) > 0 THEN parts.dir ELSE parts.root
      base == IF Len(parts.base) > 0 THEN parts.base ELSE parts.name \o parts.ext
  IN IF Len(dir) = 0 THEN base
     ELSE IF dir = parts.root THEN dir \o base
     ELSE dir \o <<SLASH>> \o base

\* path.dirname
PathDirname(p) ==
  LET q == StripTrailingSlashes(p)
      cut == LastIndexOf(q, SLASH)
  IN IF Len(p) = 0 THEN <<DOT>>
     ELSE IF cut <= 1 THEN (IF IsAbsolute(p) THEN <<SLASH>> ELSE <<DOT>>)
     ELSE IF IsAbsolute(p) /\ cut = 2 THEN <<SLASH, SLASH>>
     ELSE SubSeq(p, 1, cut - 1)

(***************************************************************************)
(* node:url.  A file: URL is represented by its pathname, a string in      *)
(* which a space is written "%20".                                         *)
(***************************************************************************)
SPACE == " "
PCT20 == "%20"
PCT2520 == "%2520"

\* pathToFileURL escapes "%" before the URL parser escapes the space.
EncodePathToken(c) == IF c = SPACE THEN PCT20 ELSE IF c = PCT20 THEN PCT2520 ELSE c

\* The URL parser's path percent-encode set holds the space, not "%".
EncodeUrlToken(c) == IF c = SPACE THEN PCT20 ELSE c

\* Percent-decoding, as fileURLToPath does it.
DecodeToken(c) == IF c = PCT20 THEN SPACE ELSE IF c = PCT2520 THEN PCT20 ELSE c

\* fileURLToPath(url): the location a file: URL names.
FileURLToPath(u) == [i \in 1..Len(u) |-> DecodeToken(u[i])]

\* pathToFileURL(p).pathname: p is resolved against the working directory
\* wd; a trailing separator of p is kept.
PathToFileURL(wd, p) ==
  LET r == PathResolve(wd, p)
      kept == IF EndsWithSlash(p) /\ ~EndsWithSlash(r) THEN r \o <<SLASH>> ELSE r
  IN [i \in 1..Len(kept) |-> EncodePathToken(kept[i])]

\* The URL parser's handling of "." and ".." path segments: ".." pops a
\* segment and never climbs above the root; a final "." or ".." leaves an
\* empty last segment.
RECURSIVE RemoveDotSegments(_, _)
RemoveDotSegments(segs, acc) ==
  IF Len(segs) = 0 THEN acc
  ELSE LET h == Head(segs)
           t == Tail(segs)
           final == Len(t) = 0
       IN IF h = DOTDOT
            THEN LET popped == IF Len(acc) > 0 THEN SubSeq(acc, 1, Len(acc) - 1) ELSE acc
                 IN RemoveDotSegments(t, IF final THEN Append(popped, <<>>) ELSE popped)
          ELSE IF h = <<DOT>>
            THEN RemoveDotSegments(t, IF final THEN Append(acc, <<>>) ELSE acc)
          ELSE RemoveDotSegments(t, Append(acc, h))

\* new URL(rel, base).pathname for a file: base: an absolute rel replaces the
\* base's path, any other rel replaces the base's last segment (the base
\* names a directory only when it ends in "/").
NewURL(rel, base) ==
  IF Len(rel) = 0 THEN base
  ELSE LET merged == IF IsAbsolute(rel) THEN rel
                     ELSE SubSeq(base, 1, LastIndexOf(base, SLASH)) \o rel
           clean == <<SLASH>>
                    \o JoinWith(RemoveDotSegments(Split(Tail(merged), SLASH), <<>>), SLASH)
       IN [i \in 1..Len(clean) |-> EncodeUrlToken(clean[i])]

(***************************************************************************)
(* The state: the filesystem, the process and the resolver object.         *)
(***************************************************************************)
VARIABLES
  files,         \* the absolute paths that are regular files
  dirs,          \* the absolute paths that are directories
  manifest,      \* the content of each file named package.json
  cwd,           \* process.cwd()
  built,         \* whether sassResolver() has returned an importer
  includePaths,  \* the list the importer's findFileUrl closes over
  pc,            \* "idle", or "returned" after a call
  call,          \* the last call: its operation and arguments
  ret            \* the last call's outcome: [kind, val]

vars == <<files, dirs, manifest, cwd, built, includePaths, pc, call, ret>>

(***************************************************************************)
(* JavaScript values that are no strings.                                  *)
(***************************************************************************)
NULL == <<"<null>">>
UNDEFINED == <<"<undefined>">>
SyntaxError == <<"<SyntaxError>">>   \* thrown by JSON.parse
ENOENT == <<"<ENOENT>">>             \* thrown by fs.readFileSync / fs.lstatSync
TypeError == <<"<Error>">>           \* thrown by sassResolver, pathToFileURL
NUMBER == <<"<number>">>             \* a value of type number, such as 123

Thrown == {SyntaxError, ENOENT, TypeError}

\* The truthiness of a string, null or undefined.
Truthy(v) == v # NULL /\ v # UNDEFINED /\ Len(v) > 0

(***************************************************************************)
(* node:fs, read only.  Paths handed to it by the code are normalised, so  *)
(* resolving them lexically agrees with the operating system.              *)
(***************************************************************************)
\* fs.existsSync(p) for a string p
ExistsSync(p) == Len(p) > 0 /\ PathResolve(cwd, p) \in files \cup dirs

\* fs.existsSync(u) for a URL object u
ExistsSyncURL(u) == FileURLToPath(u) \in files \cup dirs

\* fs.lstatSync(p).isDirectory(): TRUE, FALSE, or ENOENT thrown
LstatIsDirectory(p) ==
  IF ~ExistsSync(p) THEN ENOENT ELSE PathResolve(cwd, p) \in dirs

(***************************************************************************)
(* src/sass-resolver.js                                                    *)
(***************************************************************************)
STYLE_EXTENSIONS == << <<"sass">>, <<"scss">>, <<"css">> >>

PACKAGE_JSON == <<"package", DOT, "json">>

pathExists(args) == ExistsSync(PathJoin(args))

pathIsDirectory(args) == LstatIsDirectory(PathJoin(args))

\* extensions.find(ext => fs.existsSync(`${base}.${ext}`))
RECURSIVE FindExt(_, _)
FindExt(base, extensions) ==
  IF Len(extensions) = 0 THEN UNDEFINED
  ELSE IF ExistsSync(base \o <<DOT>> \o Head(extensions)) THEN Head(extensions)
  ELSE FindExt(base, Tail(extensions))

Includes(extensions, e) == \E i \in 1..Len(extensions) : extensions[i] = e

\* An extension resolver that tries the partial form whatever the name
\* starts with.
tryToFindFileAlwaysPartial(filePath, extensions) ==
  LET pathParts == PathParse(filePath)
      fileExt == FindExt(filePath, extensions)
      underscoredFilePath ==
        PathFormat([pathParts EXCEPT !.name = <<"_">> \o @, !.base = <<>>])
      underscoredExt == FindExt(underscoredFilePath, extensions)
  IN IF /\ Len(pathParts.ext) > 0
        /\ Includes(extensions, Tail(pathParts.ext))
        /\ ExistsSync(filePath)
       THEN filePath
     ELSE IF Truthy(fileExt) THEN filePath \o <<DOT>> \o fileExt
     ELSE IF Truthy(underscoredExt)
       THEN underscoredFilePath \o <<DOT>> \o underscoredExt
     ELSE NULL

tryToFindFile(filePath, extensions) ==
  LET pathParts == PathParse(filePath)
      fileExt == FindExt(filePath, extensions)
      underscoredFilePath ==
        PathFormat([pathParts EXCEPT !.name = <<"_">> \o @, !.base = <<>>])
      underscoredExt == FindExt(underscoredFilePath, extensions)
  IN IF /\ Len(pathParts.ext) > 0
        /\ Includes(extensions, Tail(pathParts.ext))
        /\ ExistsSync(filePath)
       THEN filePath
     ELSE IF Truthy(fileExt) THEN filePath \o <<DOT>> \o fileExt
     ELSE IF ~StartsWith(pathParts.name, <<"_">>) /\ Truthy(underscoredExt)
       THEN underscoredFilePath \o <<DOT>> \o underscoredExt
     ELSE NULL

\* pkg.field of a parsed manifest
Field(pkg, f) == IF f \in DOMAIN pkg THEN pkg[f] ELSE UNDEFINED

\* a || b
Or(a, b) == IF Truthy(a) THEN a ELSE b

\* A manifest reader that takes a file that is no JSON for one without fields.
extractMainPathSwallowingParseError(packageJsonPath) ==
  IF ~pathExists(<<packageJsonPath, PACKAGE_JSON>>) THEN NULL
  ELSE LET read == PathJoin(<<cwd, packageJsonPath, PACKAGE_JSON>>)
       IN IF read \notin files THEN ENOENT
          ELSE IF ~manifest[read].json THEN NULL
          ELSE LET pkg == manifest[read].fields
                   mainPath == Or(Field(pkg, "sass"), Or(Field(pkg, "scss"),
                               Or(Field(pkg, "style"), Or(Field(pkg, "css"),
                                  Field(pkg, "main")))))
               IN IF ~Truthy(mainPath) THEN NULL ELSE mainPath

extractMainPathFromPackageJson(packageJsonPath) ==
  IF ~pathExists(<<packageJsonPath, PACKAGE_JSON>>) THEN NULL
  ELSE LET read == PathJoin(<<cwd, packageJsonPath, PACKAGE_JSON>>)
       IN IF read \notin files THEN ENOENT
          ELSE IF ~manifest[read].json THEN SyntaxError
          ELSE LET pkg == manifest[read].fields
                   mainPath == Or(Field(pkg, "sass"), Or(Field(pkg, "scss"),
                               Or(Field(pkg, "style"), Or(Field(pkg, "css"),
                                  Field(pkg, "main")))))
               IN IF ~Truthy(mainPath) THEN NULL ELSE mainPath

\* A package path that takes no notice of a scope.
getPackagePathUnscoped(url) ==
  LET parts == PathParse(url)
      dirChunks == Split(parts.dir, SLASH)
  IN IF Len(parts.dir) = 0 THEN NULL
     ELSE IF Len(dirChunks) = 0 THEN NULL
     ELSE dirChunks[1]

getPackagePath(url) ==
  LET parts == PathParse(url)
      dirChunks == Split(parts.dir, SLASH)
  IN IF Len(parts.dir) = 0 THEN NULL
     ELSE IF Len(dirChunks) = 0 THEN NULL
     ELSE IF StartsWith(dirChunks[1], <<"@">>) /\ Len(dirChunks) > 1
       THEN PathJoin(<<dirChunks[1], dirChunks[2]>>)
     ELSE dirChunks[1]

\* resolvePath is written as a chain of operators, each of which takes the
\* constants of the function body computed so far as its parameters.

\* Lines 91-97: the package declares the entry point stylePath.
resolvePackageStyle(url, resolvedPath, packagePath, packageFullPath, packageStyle) ==
  LET styleDir == PathDirname(packageStyle)
      styleFinalPath ==
        PathJoin(<<packageFullPath, styleDir, Replace(url, packagePath)>>)
      correctPackageFile == tryToFindFile(styleFinalPath, STYLE_EXTENSIONS)
  IN IF packageStyle \in Thrown THEN packageStyle
     ELSE IF Truthy(packageStyle) /\ Truthy(correctPackageFile)
       THEN NewURL(correctPackageFile, resolvedPath)
     ELSE NULL

\* Lines 88-89: the specifier has the package path packagePath.
resolveInPackage(url, resolvedPath, packagePath, packageFullPath) ==
  resolvePackageStyle(url, resolvedPath, packagePath, packageFullPath,
                      extractMainPathFromPackageJson(packageFullPath))

\* Lines 64-100: the returns of the function, in their order.
resolveSteps(url, resolvedPath, importPath, isDirectory, correctIndexFile, style, correctFile, packagePath) ==
  LET stylePath == NewURL(PathJoin(<<importPath, style>>), resolvedPath)
  IN \* 1. Maybe it's a directory?
     IF isDirectory /\ Truthy(correctIndexFile)
       THEN NewURL(correctIndexFile, resolvedPath)
     ELSE IF isDirectory /\ style \in Thrown THEN style
     ELSE IF isDirectory /\ Truthy(style) /\ ExistsSyncURL(stylePath) THEN stylePath
     \* 2. Maybe it's a file?
     ELSE IF pathExists(<<importPath>>) THEN PathToFileURL(cwd, importPath)
     \* 2.1 Try to find the correct file with different formats
     ELSE IF Truthy(correctFile) THEN NewURL(correctFile, resolvedPath)
     \* 2.2 Maybe it's a file within a package?
     ELSE IF ~Truthy(packagePath) THEN NULL
     ELSE resolveInPackage(url, resolvedPath, packagePath,
            PathRelative(cwd, cwd, PathJoin(<<resolvedPath, packagePath>>)))

\* Lines 64-87: what the function computes from importPath.
resolveImportPath(url, resolvedPath, importPath) ==
  resolveSteps(url, resolvedPath, importPath,
               pathExists(<<importPath>>) /\ pathIsDirectory(<<importPath>>),
               tryToFindFile(PathJoin(<<importPath, <<"index">>>>), STYLE_EXTENSIONS),
               extractMainPathFromPackageJson(importPath),
               tryToFindFile(importPath, STYLE_EXTENSIONS),
               getPackagePath(url))

\* Lines 60-61: the root directory has the URL resolvedPath.
resolveInRoot(url, resolvedPath) ==
  \* check if resolve path, like `node_modules` exists
  IF ~ExistsSync(resolvedPath) THEN NULL
  ELSE resolveImportPath(url, resolvedPath,
                         PathRelative(cwd, cwd, PathJoin(<<resolvedPath, url>>)))

resolvePath(url, includePath) ==
  \* pathToFileURL throws for a value that is no string
  IF includePath = NUMBER THEN TypeError
  ELSE resolveInRoot(url, PathToFileURL(cwd, includePath))

\* A loop that keeps the last match instead of returning the first.
RECURSIVE findFileUrlLastMatch(_, _, _)
findFileUrlLastMatch(url, paths, i) ==
  IF i > Len(paths) THEN NULL
  ELSE LET result == resolvePath(url, paths[i])
           later == findFileUrlLastMatch(url, paths, i + 1)
       IN IF later # NULL THEN later ELSE result

\* A loop that returns what the first include path yields, null or not.
findFileUrlFirstRootOnly(url, paths, i) ==
  IF i > Len(paths) THEN NULL ELSE resolvePath(url, paths[i])

\* The loop of findFileUrl over the include paths from position i on.
RECURSIVE findFileUrlFrom(_, _, _)
findFileUrlFrom(url, paths, i) ==
  IF i > Len(paths) THEN NULL
  ELSE LET result == resolvePath(url, paths[i])
       IN IF result # NULL THEN result ELSE findFileUrlFrom(url, paths, i + 1)

findFileUrl(url) == findFileUrlFrom(url, includePaths, 1)

\* sassResolver(arg): the include-path list of the importer, or the error
\* thrown.  arg is [type, val]: val is a string for "string", a list of
\* strings for "array", and unused otherwise.
sassResolver(arg) ==
  LET falsy == \/ arg.type \in {"undefined", "null"}
               \/ arg.type = "string" /\ Len(arg.val) = 0
               \/ arg.type = "number" /\ arg.val = 0
  IN IF falsy THEN [kind |-> "throw", val |-> TypeError]
     ELSE IF arg.type = "string" THEN [kind |-> "importer", val |-> <<arg.val>>]
     ELSE IF arg.type # "array" THEN [kind |-> "throw", val |-> TypeError]
     ELSE [kind |-> "importer", val |-> arg.val]

(***************************************************************************)
(* The bounded world the model is explored in.                             *)
(***************************************************************************)
\* The most regular files a filesystem holds: where resolvePath, tryToFindFile
\* or extractMainPathFromPackageJson is called alone, and where an importer
\* is constructed and called.
MaxFiles == 3
MaxImporterFiles == 2

\* An absolute path from its segments.
Abs(segs) == <<SLASH>> \o JoinWith(segs, SLASH)
\* A relative path from its segments.
Rel(segs) == JoinWith(segs, SLASH)

nW == <<"w">>
nNm == <<"nm">>
nV == <<"v">>
nSt == <<"st">>
nMyLib == <<"my", SPACE, "lib">>
nPkg == <<"pkg">>
nScope == <<"@", "s">>
nSrc == <<"src">>
nCore == <<"core">>
nUtil == <<"util">>
nIndex == <<"index">>
nIndexScss == <<"index", DOT, "scss">>
nIndexJs == <<"index", DOT, "js">>
nUtilScss == <<"_", "util", DOT, "scss">>
nPkgScss == <<"pkg", DOT, "scss">>
nPkgCss == <<"pkg", DOT, "css">>
nPartialPkgScss == <<"_", "pkg", DOT, "scss">>

\* Manifests: { "sass": "src/index.scss", "main": "index.js" }, and a file
\* that is no JSON.
ManifestSass ==
  [json |-> TRUE, fields |-> [sass |-> Rel(<<nSrc, nIndexScss>>), main |-> nIndexJs]]
ManifestMalformed == [json |-> FALSE, fields |-> <<>>]
NoManifest == [json |-> FALSE, fields |-> <<"not a manifest">>]

\* The directories that always exist; the others exist when they hold a file.
BaseDirs == {<<SLASH>>, Abs(<<nW>>), Abs(<<nW, nV>>)}

\* The places a root directory can be at.
RootNm == <<nW, nNm>>
RootSt == <<nW, nV, nSt>>
RootMyLib == <<nW, nMyLib>>

File(segs) == [path |-> Abs(segs), data |-> NoManifest]
Manifest(segs, m) == [path |-> Abs(segs \o <<PACKAGE_JSON>>), data |-> m]

FileUniverse ==
  { File(RootNm \o <<nPkg, nIndexScss>>),
    Manifest(RootNm \o <<nPkg>>, ManifestSass),
    Manifest(RootNm \o <<nPkg>>, ManifestMalformed),
    File(RootNm \o <<nPkg, nSrc, nIndexScss>>),
    File(RootNm \o <<nPkg, nSrc, nCore, nUtilScss>>),
    File(RootNm \o <<nPkgScss>>),
    File(RootNm \o <<nPartialPkgScss>>),
    File(RootNm \o <<nPkg>>),
    Manifest(RootNm \o <<nScope, nPkg>>, ManifestSass),
    File(RootNm \o <<nScope, nPkg, nSrc, nUtilScss>>),
    File(RootSt \o <<nPkg, nIndexScss>>),
    Manifest(RootSt \o <<nPkg>>, ManifestSass),
    File(RootSt \o <<nPkg, nSrc, nIndexScss>>),
    File(RootSt \o <<nPkgScss>>),
    File(RootMyLib \o <<nPkgScss>>) }

\* The directories above an absolute path.
Ancestors(p) == {<<SLASH>>} \cup {SubSeq(p, 1, i - 1) : i \in {k \in 2..Len(p) : p[k] = SLASH}}

\* A set of files is a filesystem when no path is both a file and a
\* directory, or two files.
Consistent(F) ==
  \A f, g \in F : /\ f.path \notin Ancestors(g.path)
                  /\ (f.path = g.path => f = g)

Filesystems(universe, max) ==
  {F \in SUBSET universe : Cardinality(F) <= max /\ Consistent(F)}

\* The working directories the process is started in or changes to.
CwdUniverse == {Abs(<<nW>>), Abs(<<nW, nV>>)}

\* Include paths: relative with one segment, relative with two, absolute,
\* one that does not exist, and one with a space in its name.
IncludePathUniverse ==
  {nNm, Rel(<<nV, nSt>>), nSt, Abs(RootNm), Abs(<<<<"no">>>>), nMyLib}

\* Import specifiers.
UrlUniverse ==
  { nPkg,
    Rel(<<nPkg, nCore, nUtil>>),
    Rel(<<nPkg, nSrc>>),
    Rel(<<nPkg, nSrc, nIndexScss>>),
    Rel(<<nScope, nPkg, nUtil>>) }

\* The arguments sassResolver is constructed with.
ResolverArgs ==
  { [type |-> "string", val |-> nNm],
    [type |-> "array", val |-> <<>>],
    [type |-> "array", val |-> <<Abs(<<<<"no">>>>), Rel(<<nV, nSt>>), nNm>>],
    [type |-> "array", val |-> <<nNm, Rel(<<nV, nSt>>)>>],
    [type |-> "undefined", val |-> <<>>],
    [type |-> "number", val |-> 123] }

(***************************************************************************)
(* The state machine.                                                      *)
(***************************************************************************)
NoCall == [op |-> "none"]
NoRet == [kind |-> "none", val |-> <<>>]

\* The outcome of a call that returns a string, a URL or null, or throws.
Outcome(v, kind) ==
  IF v \in Thrown THEN [kind |-> "throw", val |-> v]
  ELSE IF v = NULL THEN [kind |-> "null", val |-> <<>>]
  ELSE [kind |-> kind, val |-> v]

\* The filesystem that holds the files F.
Mounted(F) ==
  /\ files = {f.path : f \in F}
  /\ dirs = BaseDirs \cup UNION {Ancestors(f.path) : f \in F}
  /\ manifest = [p \in {f.path : f \in {g \in F : g.data # NoManifest}} |->
                   (CHOOSE f \in F : f.path = p).data]

\* No importer constructed, no call made.
Fresh ==
  /\ built = FALSE
  /\ includePaths = <<>>
  /\ pc = "idle"
  /\ call = NoCall
  /\ ret = NoRet

InitResolve ==
  /\ \E F \in Filesystems(FileUniverse, MaxFiles) : Mounted(F)
  /\ cwd \in CwdUniverse
  /\ Fresh

Init ==
  /\ \E F \in Filesystems(FileUniverse, MaxImporterFiles) : Mounted(F)
  /\ cwd \in CwdUniverse
  /\ Fresh

\* process.chdir(d), by the host program
Chdir(d) ==
  /\ pc = "idle"
  /\ d \in dirs
  /\ d # cwd
  /\ cwd' = d
  /\ UNCHANGED <<files, dirs, manifest, built, includePaths, pc, call, ret>>

\* const importer = sassResolver(arg)
Construct(arg) ==
  /\ pc = "idle"
  /\ LET r == sassResolver(arg)
     IN /\ ret' = r
        /\ built' = (built \/ r.kind = "importer")
        /\ includePaths' = IF r.kind = "importer" THEN r.val ELSE includePaths
  /\ call' = [op |-> "sassResolver", arg |-> arg]
  /\ pc' = "returned"
  /\ UNCHANGED <<files, dirs, manifest, cwd>>

CallResolvePath(url, includePath) ==
  /\ pc = "idle"
  /\ ret' = Outcome(resolvePath(url, includePath), "url")
  /\ call' = [op |-> "resolvePath", url |-> url, includePath |-> includePath]
  /\ pc' = "returned"
  /\ UNCHANGED <<files, dirs, manifest, cwd, built, includePaths>>

\* A dispatcher that takes each include path it tries off its list.
CallFindFileUrlShifting(url) ==
  /\ pc = "idle"
  /\ built
  /\ ret' = Outcome(findFileUrl(url), "url")
  /\ call' = [op |-> "findFileUrl", url |-> url]
  /\ pc' = "returned"
  /\ includePaths' = IF Len(includePaths) = 0 THEN includePaths ELSE Tail(includePaths)
  /\ UNCHANGED <<files, dirs, manifest, cwd, built>>

CallFindFileUrl(url) ==
  /\ pc = "idle"
  /\ built
  /\ ret' = Outcome(findFileUrl(url), "url")
  /\ call' = [op |-> "findFileUrl", url |-> url]
  /\ pc' = "returned"
  /\ UNCHANGED <<files, dirs, manifest, cwd, built, includePaths>>

\* The caller takes the outcome and goes on.
Return ==
  /\ pc = "returned"
  /\ pc' = "idle"
  /\ call' = NoCall
  /\ ret' = NoRet
  /\ UNCHANGED <<files, dirs, manifest, cwd, built, includePaths>>

CallTryToFindFile(filePath, extensions) ==
  /\ pc = "idle"
  /\ ret' = Outcome(tryToFindFile(filePath, extensions), "path")
  /\ call' = [op |-> "tryToFindFile", filePath |-> filePath, extensions |-> extensions]
  /\ pc' = "returned"
  /\ UNCHANGED <<files, dirs, manifest, cwd, built, includePaths>>

CallExtractMainPath(packageJsonPath) ==
  /\ pc = "idle"
  /\ ret' = Outcome(extractMainPathFromPackageJson(packageJsonPath), "path")
  /\ call' = [op |-> "extractMainPathFromPackageJson", packageJsonPath |-> packageJsonPath]
  /\ pc' = "returned"
  /\ UNCHANGED <<files, dirs, manifest, cwd, built, includePaths>>

CallGetPackagePath(url) ==
  /\ pc = "idle"
  /\ ret' = Outcome(getPackagePath(url), "path")
  /\ call' = [op |-> "getPackagePath", url |-> url]
  /\ pc' = "returned"
  /\ UNCHANGED <<files, dirs, manifest, cwd, built, includePaths>>

\* The paths the helpers are called with beside an importer.
FilePathUniverse == {Rel(<<nNm, nPkg>>), Rel(<<nNm, nPkg, nIndex>>)}
PackageDirUniverse == {Rel(<<nNm, nPkg>>), Abs(RootNm \o <<nPkg>>)}

Next ==
  \/ \E d \in CwdUniverse : Chdir(d)
  \/ \E arg \in ResolverArgs : Construct(arg)
  \/ \E url \in UrlUniverse, includePath \in IncludePathUniverse :
       CallResolvePath(url, includePath)
  \/ \E url \in UrlUniverse : CallFindFileUrl(url)
  \/ \E filePath \in FilePathUniverse : CallTryToFindFile(filePath, STYLE_EXTENSIONS)
  \/ \E dir \in PackageDirUniverse : CallExtractMainPath(dir)
  \/ \E url \in UrlUniverse : CallGetPackagePath(url)
  \/ Return

Spec == Init /\ [][Next]_vars

(***************************************************************************)
(* What the documentation says a resolution finds, stated on absolute      *)
(* locations of the filesystem and not on the code's relative paths and    *)
(* URLs.                                                                   *)
(***************************************************************************)
Located(p) == PathResolve(cwd, p) \in files \cup dirs

EndsWith(s, t) == Len(s) >= Len(t) /\ SubSeq(s, Len(s) - Len(t) + 1, Len(s)) = t

\* The file-name component of a path, and what precedes it.
FileName(p) == SubSeq(p, LastIndexOf(p, SLASH) + 1, Len(p))
BeforeFileName(p) == SubSeq(p, 1, LastIndexOf(p, SLASH))

CarriesExtension(p, extensions) ==
  \E i \in 1..Len(extensions) :
    /\ EndsWith(FileName(p), <<DOT>> \o extensions[i])
    /\ Len(FileName(p)) > Len(extensions[i]) + 1

IsPartialName(p) == Len(FileName(p)) > 0 /\ FileName(p)[1] = "_"

AsPartial(p) == BeforeFileName(p) \o <<"_">> \o FileName(p)

WithExtensions(p, extensions) ==
  [i \in 1..Len(extensions) |-> p \o <<DOT>> \o extensions[i]]

\* The candidates of the extension resolver, in the order of their priority.
Candidates(p, extensions) ==
  (IF CarriesExtension(p, extensions) THEN <<p>> ELSE <<>>)
  \o WithExtensions(p, extensions)
  \o (IF IsPartialName(p) THEN <<>> ELSE WithExtensions(AsPartial(p), extensions))

\* The first candidate that exists, or NULL.
FirstLocated(cands) ==
  LET hits == {i \in 1..Len(cands) : Located(cands[i])}
  IN IF hits = {} THEN NULL ELSE cands[CHOOSE i \in hits : \A k \in hits : i <= k]

\* The manifest fields an entry point is taken from, by priority.
ManifestFields == <<"sass", "scss", "style", "css", "main">>

HasManifest(dir) == PathResolve(cwd, dir \o <<SLASH>> \o PACKAGE_JSON) \in files

ManifestOf(dir) == manifest[PathResolve(cwd, dir \o <<SLASH>> \o PACKAGE_JSON)]

\* The entry point the manifest of a directory declares, or NULL.
EntryPoint(dir) ==
  LET pkg == ManifestOf(dir).fields
      given == {i \in 1..Len(ManifestFields) :
                  /\ ManifestFields[i] \in DOMAIN pkg
                  /\ Len(pkg[ManifestFields[i]]) > 0}
  IN IF ~HasManifest(dir) \/ ~ManifestOf(dir).json \/ given = {} THEN NULL
     ELSE pkg[ManifestFields[CHOOSE i \in given : \A k \in given : i <= k]]

\* The package root of a specifier, or NULL.
PackageRoot(url) ==
  LET segs == Split(url, SLASH)
      dirSegs == SubSeq(segs, 1, Len(segs) - 1)
  IN IF Len(dirSegs) = 0 THEN NULL
     ELSE IF Len(dirSegs) >= 2 /\ Len(dirSegs[1]) > 0 /\ dirSegs[1][1] = "@"
       THEN dirSegs[1] \o <<SLASH>> \o dirSegs[2]
     ELSE dirSegs[1]

\* The root directory an include path names, and the candidate path of a
\* specifier under it.
RootDir(includePath) == PathResolve(cwd, includePath)
Under(dir, rel) == PathResolve(cwd, dir \o <<SLASH>> \o rel)
CandidatePath(url, includePath) == Under(RootDir(includePath), url)

\* The five steps of the fallback chain: what each finds, or NULL.
StepIndex(url, includePath) ==
  LET c == CandidatePath(url, includePath)
  IN IF c \in dirs THEN FirstLocated(Candidates(Under(c, nIndex), STYLE_EXTENSIONS))
     ELSE NULL

StepManifest(url, includePath) ==
  LET c == CandidatePath(url, includePath)
  IN IF c \in dirs /\ EntryPoint(c) # NULL /\ Located(Under(c, EntryPoint(c)))
       THEN Under(c, EntryPoint(c))
     ELSE NULL

\* The exact candidate path, whatever it is (a file or a directory).
StepExact(url, includePath) ==
  LET c == CandidatePath(url, includePath)
  IN IF Located(c) THEN c ELSE NULL

StepInfer(url, includePath) ==
  FirstLocated(Candidates(CandidatePath(url, includePath), STYLE_EXTENSIONS))

StepPackage(url, includePath) ==
  LET P == PackageRoot(url)
      packageDir == Under(RootDir(includePath), P)
      E == EntryPoint(packageDir)
      rest == SubSeq(url, Len(P) + 1, Len(url))
  IN IF P = NULL \/ Len(P) = 0 \/ E = NULL THEN NULL
     ELSE FirstLocated(Candidates(Under(Under(packageDir, PathDirname(E)), rest),
                                  STYLE_EXTENSIONS))

Steps(url, includePath) ==
  << StepIndex(url, includePath), StepManifest(url, includePath),
     StepExact(url, includePath), StepInfer(url, includePath),
     StepPackage(url, includePath) >>

\* Steps 1 to 4 all fail.
DirectStepsFail(url, includePath) ==
  /\ StepExact(url, includePath) = NULL
  /\ StepInfer(url, includePath) = NULL
  /\ StepIndex(url, includePath) = NULL
  /\ StepManifest(url, includePath) = NULL

\* The result of the first step that succeeds, or NULL when none does.
FirstSuccess(steps) ==
  LET hits == {i \in 1..Len(steps) : steps[i] # NULL}
  IN IF hits = {} THEN NULL ELSE steps[CHOOSE i \in hits : \A k \in hits : i <= k]

(***************************************************************************)
(* resolvePath alone, called from any working directory.                   *)
(***************************************************************************)
NextResolve ==
  \/ \E d \in CwdUniverse : Chdir(d)
  \/ \E url \in UrlUniverse, includePath \in IncludePathUniverse :
       CallResolvePath(url, includePath)
  \/ Return

SpecResolve == InitResolve /\ [][NextResolve]_vars

ResolveReturned == pc = "returned" /\ call.op = "resolvePath"

\* The root directory lies directly in the working directory and its name
\* needs no percent-encoding.
RootInCwd(includePath) ==
  /\ PathDirname(RootDir(includePath)) = cwd
  /\ PathToFileURL(cwd, includePath) = RootDir(includePath)

\* Lemma, for the roots of the test suite: the result is that of the first
\* step that succeeds.
ResolveIsFirstStepInCwd ==
  (ResolveReturned /\ ret.kind # "throw"
     /\ RootDir(call.includePath) \in dirs /\ RootInCwd(call.includePath))
  => LET first == FirstSuccess(Steps(call.url, call.includePath))
     IN /\ (ret.kind = "null") = (first = NULL)
        /\ ret.kind = "url" => FileURLToPath(ret.val) = first

\* C2: for an existing root directory, resolvePath returns the result of
\* the first of the five steps that succeeds, and not-found exactly when all
\* five fail.
C2_FirstStepWins ==
  (ResolveReturned /\ ret.kind # "throw" /\ RootDir(call.includePath) \in dirs)
  => LET first == FirstSuccess(Steps(call.url, call.includePath))
     IN /\ (ret.kind = "null") = (first = NULL)
        /\ ret.kind = "url" => FileURLToPath(ret.val) = first

\* C4: when steps 1-4 fail and the package of the specifier declares an
\* entry point, resolvePath returns what the extension resolver finds under
\* the entry point's directory.
C4_PackageRelative ==
  (ResolveReturned /\ ret.kind # "throw" /\ RootDir(call.includePath) \in dirs
     /\ DirectStepsFail(call.url, call.includePath))
  => LET found == StepPackage(call.url, call.includePath)
     IN /\ (ret.kind = "null") = (found = NULL)
        /\ ret.kind = "url" => FileURLToPath(ret.val) = found

\* C7: every result of resolvePath is the location of a path that exists,
\* inside the root directory.
C7_ResultExistsUnderRoot ==
  (ResolveReturned /\ ret.kind = "url")
  => /\ FileURLToPath(ret.val) \in files \cup dirs
     /\ StartsWith(FileURLToPath(ret.val), RootDir(call.includePath))

\* C8: the candidate path itself is returned only when it is a file, never
\* when it is a directory.
C8_ExactOnlyForFiles ==
  (ResolveReturned /\ ret.kind = "url"
     /\ FileURLToPath(ret.val) = CandidatePath(call.url, call.includePath))
  => CandidatePath(call.url, call.includePath) \in files

(***************************************************************************)
(* The importer: sassResolver and findFileUrl.                             *)
(***************************************************************************)
NextDispatch ==
  \/ \E d \in CwdUniverse : Chdir(d)
  \/ \E arg \in ResolverArgs : Construct(arg)
  \/ \E url \in UrlUniverse : CallFindFileUrl(url)
  \/ Return

SpecDispatch == Init /\ [][NextDispatch]_vars

DispatchReturned == pc = "returned" /\ call.op = "findFileUrl"

\* The positions of the roots that yield something other than not-found.
Hits(url, R) == {i \in 1..Len(R) : resolvePath(url, R[i]) # NULL}

\* The first result in list order that is not not-found, or NULL.
FirstHit(url, R) ==
  LET hits == Hits(url, R)
  IN IF hits = {} THEN NULL
     ELSE resolvePath(url, R[CHOOSE i \in hits : \A k \in hits : i <= k])

\* C1: findFileUrl(s) is the first result of resolvePath(s, r), for r in
\* list order, that is not null; and null when every root yields null or the
\* list is empty.
C1_FirstRootWins ==
  DispatchReturned => ret = Outcome(FirstHit(call.url, includePaths), "url")

\* An earlier and a later root both match, with different results, and the
\* earlier one's is returned.
C1_Witness ==
  /\ DispatchReturned
  /\ ret.kind = "url"
  /\ \E i, k \in Hits(call.url, includePaths) :
       /\ i < k
       /\ resolvePath(call.url, includePaths[i]) = ret.val
       /\ resolvePath(call.url, includePaths[k]) # ret.val
       /\ resolvePath(call.url, includePaths[k]) \notin Thrown

\* The root directory as resolvePath looks for it.
RootFound(includePath) == ExistsSync(PathToFileURL(cwd, includePath))

\* The call reads a manifest that is no JSON: in the directory step, when
\* the candidate path is a directory without an index file, or in the
\* package-relative step, when steps 1-4 have failed.
MalformedRead(url, includePath) ==
  LET c == CandidatePath(url, includePath)
      P == PackageRoot(url)
      packageDir == Under(RootDir(includePath), P)
  IN /\ RootFound(includePath)
     /\ \/ /\ c \in dirs
           /\ StepIndex(url, includePath) = NULL
           /\ HasManifest(c)
           /\ ~ManifestOf(c).json
        \/ /\ DirectStepsFail(url, includePath)
           /\ P # NULL
           /\ Len(P) > 0
           /\ HasManifest(packageDir)
           /\ ~ManifestOf(packageDir).json

\* C9: not-found is a value, never an error.  A root that does not exist
\* yields null; the roots after it are still tried; findFileUrl returns null
\* when no step matches in any root and when no root exists; and it raises
\* only when a manifest it reads is malformed.
C9_NotFoundIsAValue ==
  DispatchReturned =>
    LET R == includePaths
        url == call.url
        existing == SelectSeq(R, LAMBDA r : Located(RootDir(r)))
        malformed == \E i \in 1..Len(R) : MalformedRead(url, R[i])
    IN /\ \A i \in 1..Len(R) :
            ~Located(RootDir(R[i])) => resolvePath(url, R[i]) = NULL
       /\ ret = Outcome(FirstHit(url, existing), "url")
       /\ (~malformed /\ \A i \in 1..Len(R) : FirstSuccess(Steps(url, R[i])) = NULL)
            => ret.kind = "null"
       /\ Len(existing) = 0 => ret.kind = "null"
       /\ ret.kind = "throw" => malformed

\* The first root does not exist and a later one matches.
C9_Witness ==
  /\ DispatchReturned
  /\ Len(includePaths) >= 2
  /\ ~Located(RootDir(includePaths[1]))
  /\ ret.kind = "url"

\* C10: a malformed manifest read during a resolution ends the call of
\* resolvePath, and of findFileUrl, in the parse error.
C10_MalformedManifestIsFatal ==
  DispatchReturned =>
    LET R == includePaths
        url == call.url
    IN \A i \in 1..Len(R) :
         MalformedRead(url, R[i]) =>
           /\ resolvePath(url, R[i]) = SyntaxError
           /\ (\A k \in 1..(i - 1) : resolvePath(url, R[k]) = NULL)
                => ret = [kind |-> "throw", val |-> SyntaxError]

\* findFileUrl raised on a manifest read in the package-relative step.
C10_Witness ==
  /\ DispatchReturned
  /\ ret = [kind |-> "throw", val |-> SyntaxError]
  /\ \E i \in 1..Len(includePaths) :
       /\ MalformedRead(call.url, includePaths[i])
       /\ CandidatePath(call.url, includePaths[i]) \notin dirs

(***************************************************************************)
(* tryToFindFile alone.                                                    *)
(***************************************************************************)
nX == <<"x">>
nPartialX == <<"_", "x">>
nSrcPartial == <<"_", "src">>

WithExt(name, e) == name \o <<DOT, e>>

\* Around src/x: every extension, the partial forms, a name with two
\* underscores, a name with two extensions, a partial directory, and x
\* beside src.
FindUniverse ==
  { File(<<nW, nSrc, WithExt(nX, "sass")>>),
    File(<<nW, nSrc, WithExt(nX, "scss")>>),
    File(<<nW, nSrc, WithExt(nX, "css")>>),
    File(<<nW, nSrc, WithExt(nPartialX, "scss")>>),
    File(<<nW, nSrc, WithExt(nPartialX, "css")>>),
    File(<<nW, nSrc, WithExt(<<"_">> \o nPartialX, "scss")>>),
    File(<<nW, nSrc, WithExt(WithExt(nX, "scss"), "scss")>>),
    File(<<nW, nSrc, WithExt(WithExt(nPartialX, "txt"), "scss")>>),
    File(<<nW, nSrcPartial, WithExt(nX, "scss")>>),
    File(<<nW, WithExt(nX, "scss")>>),
    File(<<nW, WithExt(nPartialX, "scss")>>) }

FindPathUniverse ==
  { Rel(<<nSrc, nX>>),
    Rel(<<nSrc, nPartialX>>),
    Rel(<<nSrc, WithExt(nX, "scss")>>),
    Rel(<<nSrc, WithExt(nX, "css")>>),
    Rel(<<nSrc, WithExt(nX, "txt")>>),
    nX,
    Abs(<<nW, nSrc, nX>>),
    Abs(<<nW, nX>>) }

ExtensionsUniverse == {STYLE_EXTENSIONS, << <<"css">>, <<"scss">> >>}

InitFind ==
  /\ \E F \in Filesystems(FindUniverse, MaxFiles) : Mounted(F)
  /\ cwd = Abs(<<nW>>)
  /\ Fresh

NextFind ==
  \/ \E filePath \in FindPathUniverse, extensions \in ExtensionsUniverse :
       CallTryToFindFile(filePath, extensions)
  \/ Return

SpecFind == InitFind /\ [][NextFind]_vars

FindReturned == pc = "returned" /\ call.op = "tryToFindFile"

\* C3: tryToFindFile returns the first existing candidate in the order: the
\* path itself if it carries an extension of the set; the path with each
\* extension; and, unless the file name starts with "_", the path with "_"
\* before its file name and each extension.  It returns null if none exists.
C3_CandidateOrder ==
  FindReturned
  => ret = Outcome(FirstLocated(Candidates(call.filePath, call.extensions)), "path")

\* A partial form exists beside a later-ranked plain form, and the plain
\* form is returned.
C3_Witness ==
  /\ FindReturned
  /\ ~IsPartialName(call.filePath)
  /\ ~CarriesExtension(call.filePath, call.extensions)
  /\ Located(AsPartial(call.filePath) \o <<DOT>> \o call.extensions[1])
  /\ ~Located(call.filePath \o <<DOT>> \o call.extensions[1])
  /\ ret = [kind |-> "path", val |-> call.filePath \o <<DOT>> \o call.extensions[2]]

(***************************************************************************)
(* extractMainPathFromPackageJson alone.                                   *)
(***************************************************************************)
FieldNames == {"sass", "scss", "style", "css", "main"}

\* A manifest in which each field is absent, "" or a path named after it.
ManifestWith(v) ==
  [json |-> TRUE,
   fields |-> [f \in {g \in FieldNames : v[g] # "absent"} |->
                 IF v[f] = "empty" THEN <<>> ELSE <<f, DOT, "scss">>]]

ManifestUniverse ==
  {ManifestMalformed}
  \cup {ManifestWith(v) : v \in [FieldNames -> {"absent", "empty", "path"}]}

\* The package directory /w/nm/pkg, with a manifest or without one.
PackageUniverse ==
  {{File(RootNm \o <<nPkg, nIndexScss>>)}}
  \cup {{Manifest(RootNm \o <<nPkg>>, m)} : m \in ManifestUniverse}

\* The package directory relative to /w, relative to /, and absolute; and a
\* directory that does not exist.
ManifestDirUniverse ==
  { Rel(<<nNm, nPkg>>),
    Rel(<<nW, nNm, nPkg>>),
    Abs(RootNm \o <<nPkg>>),
    Rel(<<nNm, <<"none">>>>) }

InitManifest ==
  /\ \E F \in PackageUniverse : Mounted(F)
  /\ cwd \in {Abs(<<nW>>), <<SLASH>>}
  /\ Fresh

NextManifest ==
  \/ \E dir \in ManifestDirUniverse : CallExtractMainPath(dir)
  \/ Return

SpecManifest == InitManifest /\ [][NextManifest]_vars

ManifestReturned == pc = "returned" /\ call.op = "extractMainPathFromPackageJson"

\* The manifest of the directory is absent or parses.
ManifestReadable(dir) == HasManifest(dir) => ManifestOf(dir).json

\* C5: extractMainPathFromPackageJson returns not-found when the directory
\* has no package.json, otherwise the first of sass, scss, style, css, main
\* that the manifest gives a value, and not-found when it gives none.
C5_ManifestEntryPoint ==
  (ManifestReturned /\ ManifestReadable(call.packageJsonPath))
  => ret = Outcome(EntryPoint(call.packageJsonPath), "path")

\* Lemma: the entry point rule for package directories given relative to the working directory.
ManifestEntryPointOfRelativeDir ==
  (ManifestReturned /\ ManifestReadable(call.packageJsonPath)
     /\ ~IsAbsolute(call.packageJsonPath))
  => ret = Outcome(EntryPoint(call.packageJsonPath), "path")

(***************************************************************************)
(* getPackagePath alone.                                                   *)
(***************************************************************************)
\* The most segments of a specifier.
MaxSegments == 3

SegmentUniverse == {nPkg, nScope, nCore, nUtil, WithExt(nUtil, "scss")}

SpecifierUniverse ==
  {<<>>} \cup UNION {{Rel(q) : q \in [1..n -> SegmentUniverse]} : n \in 1..MaxSegments}

InitPackagePath ==
  /\ Mounted({})
  /\ cwd = Abs(<<nW>>)
  /\ Fresh

NextPackagePath ==
  \/ \E url \in SpecifierUniverse : CallGetPackagePath(url)
  \/ Return

SpecPackagePath == InitPackagePath /\ [][NextPackagePath]_vars

PackagePathReturned == pc = "returned" /\ call.op = "getPackagePath"

\* C6: getPackagePath returns not-found for the empty specifier and for a
\* bare name; the first two segments joined when the first directory segment
\* starts with "@" and a second one exists; the first directory segment
\* otherwise.
C6_PackagePath ==
  PackagePathReturned => ret = Outcome(PackageRoot(call.url), "path")

\* A scoped specifier with two directory segments yields both.
C6_Witness ==
  /\ PackagePathReturned
  /\ StartsWith(call.url, nScope \o <<SLASH>>)
  /\ Len(Split(call.url, SLASH)) = 3
  /\ ret = [kind |-> "path", val |-> SubSeq(call.url, 1, LastIndexOf(call.url, SLASH) - 1)]

(***************************************************************************)
(* sassResolver: what it accepts as include paths.                         *)
(***************************************************************************)
\* Beside ResolverArgs: null, the empty string, 0, an object that is no
\* array, and arrays that hold a number.
ConstructorArgs ==
  ResolverArgs \cup
  { [type |-> "null", val |-> <<>>],
    [type |-> "string", val |-> <<>>],
    [type |-> "number", val |-> 0],
    [type |-> "object", val |-> <<>>],
    [type |-> "array", val |-> <<NUMBER>>],
    [type |-> "array", val |-> <<nNm, NUMBER>>] }

NextConstruct ==
  \/ \E arg \in ConstructorArgs : Construct(arg)
  \/ \E url \in UrlUniverse : CallFindFileUrl(url)
  \/ Return

SpecConstruct == Init /\ [][NextConstruct]_vars

ConstructReturned == pc = "returned" /\ call.op = "sassResolver"

\* A single path string, and a collection of path strings.
IsPathString(arg) == arg.type = "string" /\ Len(arg.val) > 0
IsPathCollection(arg) ==
  arg.type = "array" /\ \A i \in 1..Len(arg.val) : arg.val[i] # NUMBER

\* The outcome of a construction that validates its argument.
Validated(arg) ==
  IF IsPathString(arg) THEN [kind |-> "importer", val |-> <<arg.val>>]
  ELSE IF IsPathCollection(arg) THEN [kind |-> "importer", val |-> arg.val]
  ELSE [kind |-> "throw", val |-> TypeError]

\* C11: sassResolver throws, when it is called, if no include path is given
\* or the value is neither a path string nor a collection of path strings;
\* a string becomes a list of one, an empty collection is accepted, and the
\* importer holds the list given.
C11_ConstructionValidates ==
  ConstructReturned =>
    /\ ret = Validated(call.arg)
    /\ ret.kind = "importer" => includePaths = ret.val

\* Lemma: the same for every value but a collection with an element that is
\* no string.
ConstructionValidatesTheContainer ==
  (ConstructReturned /\ (call.arg.type = "array" => IsPathCollection(call.arg))) =>
    /\ ret = Validated(call.arg)
    /\ ret.kind = "importer" => includePaths = ret.val

\* Lemma: an importer constructed with an element that is no string throws
\* when it is called.
NumberRootThrowsAtCall ==
  (pc = "returned" /\ call.op = "findFileUrl" /\ includePaths = <<NUMBER>>) =>
    ret = [kind |-> "throw", val |-> TypeError]

(***************************************************************************)
(* Resolution and the working directory: the host program calls, keeps the *)
(* outcome, changes the working directory, and calls again.                *)
(***************************************************************************)
\* process.chdir(d), by a host program that holds the outcome of a call
ChdirHolding(d) ==
  /\ pc = "returned"
  /\ d \in dirs
  /\ d # cwd
  /\ cwd' = d
  /\ UNCHANGED <<files, dirs, manifest, built, includePaths, pc, call, ret>>

\* File paths that name the same location from every working directory.
AbsoluteFilePaths ==
  {Abs(RootNm \o <<nPkg>>), Abs(RootNm \o <<nPkg, nIndex>>), Abs(RootSt \o <<nPkg>>)}

NextCwd ==
  \/ \E d \in CwdUniverse : Chdir(d)
  \/ \E d \in CwdUniverse : ChdirHolding(d)
  \/ \E url \in UrlUniverse, includePath \in IncludePathUniverse :
       CallResolvePath(url, includePath)
  \/ \E filePath \in AbsoluteFilePaths : CallTryToFindFile(filePath, STYLE_EXTENSIONS)
  \/ Return

SpecCwd == Init /\ [][NextCwd]_vars

\* The outcome held is the one the same call has now.
SameResultNow ==
  IF call.op = "resolvePath"
    THEN ret = Outcome(resolvePath(call.url, call.includePath), "url")
  ELSE ret = Outcome(tryToFindFile(call.filePath, call.extensions), "path")

\* C12: with the filesystem as it is, a call of resolvePath with a specifier
\* and an absolute root directory, or of tryToFindFile with an absolute
\* path, returns what the same call returned before, whatever the working
\* directory was then and is now.
C12_SameArgumentsSameResult ==
  /\ (pc = "returned" /\ call.op = "resolvePath" /\ IsAbsolute(call.includePath))
       => SameResultNow
  /\ (pc = "returned" /\ call.op = "tryToFindFile") => SameResultNow

\* Lemma: the same for tryToFindFile alone.
TryToFindFileIsCwdIndependent ==
  (pc = "returned" /\ call.op = "tryToFindFile") => SameResultNow

\* Lemma: the same for resolvePath and an absolute root directory that does
\* not exist.
ResolvePathOfMissingRootIsCwdIndependent ==
  (pc = "returned" /\ call.op = "resolvePath" /\ call.includePath = Abs(<<<<"no">>>>))
    => SameResultNow

(***************************************************************************)
(* What the calls leave as it is.                                          *)
(***************************************************************************)
ResolutionCalls ==
  {"tryToFindFile", "extractMainPathFromPackageJson", "resolvePath", "findFileUrl"}

\* C13: a call of tryToFindFile, extractMainPathFromPackageJson, resolvePath
\* or findFileUrl, whether it returns a result, not-found or throws, leaves
\* the filesystem and the importer's list of include paths as they are.
C13_CallsChangeNothing ==
  [][(pc = "idle" /\ pc' = "returned" /\ call'.op \in ResolutionCalls) =>
       /\ files' = files
       /\ dirs' = dirs
       /\ manifest' = manifest
       /\ includePaths' = includePaths]_vars

\* An importer of three include paths has thrown over a malformed manifest,
\* and holds its three include paths.
C13_Witness ==
  /\ pc = "returned"
  /\ call.op = "findFileUrl"
  /\ ret = [kind |-> "throw", val |-> SyntaxError]
  /\ includePaths = <<Abs(<<<<"no">>>>), Rel(<<nV, nSt>>), nNm>>
  /\ \E p \in files : p \in DOMAIN manifest /\ ~manifest[p].json

(***************************************************************************)
(* The calls of pathExists and pathIsDirectory that one execution of       *)
(* resolvePath makes, in their order, its callee                           *)
(* extractMainPathFromPackageJson included.                                *)
(***************************************************************************)
\* One call: the function, the path its arguments join to, what it returned.
Probe(fn, args, result) == [fn |-> fn, path |-> PathJoin(args), result |-> result]

\* Line 36: extractMainPathFromPackageJson asks for the manifest.
probesOfManifest(packageJsonPath) ==
  << Probe("pathExists", <<packageJsonPath, PACKAGE_JSON>>,
           pathExists(<<packageJsonPath, PACKAGE_JSON>>)) >>

\* A directory test that is made without the existence test before it.
probesOfDirectoryTestUnguarded(importPath, exists) ==
  << Probe("pathIsDirectory", <<importPath>>, pathIsDirectory(<<importPath>>)) >>

\* Line 64: pathExists(importPath) && pathIsDirectory(importPath)
probesOfDirectoryTest(importPath, exists) ==
  << Probe("pathExists", <<importPath>>, exists) >>
  \o (IF exists
        THEN << Probe("pathIsDirectory", <<importPath>>, pathIsDirectory(<<importPath>>)) >>
      ELSE <<>>)

\* Lines 64-100, with the values resolvePath computes.
probesOfSteps(url, resolvedPath, importPath, exists, correctIndexFile, style, correctFile, packagePath) ==
  LET isDirectory == exists /\ pathIsDirectory(<<importPath>>)
      stylePath == NewURL(PathJoin(<<importPath, style>>), resolvedPath)
      readsManifest == isDirectory /\ ~Truthy(correctIndexFile)
      returnsInBlock ==
        isDirectory /\ (\/ Truthy(correctIndexFile)
                        \/ style \in Thrown
                        \/ Truthy(style) /\ ExistsSyncURL(stylePath))
      readsPackage == ~exists /\ ~Truthy(correctFile) /\ Truthy(packagePath)
      packageFullPath == PathRelative(cwd, cwd, PathJoin(<<resolvedPath, packagePath>>))
  IN probesOfDirectoryTest(importPath, exists)
     \o (IF readsManifest THEN probesOfManifest(importPath) ELSE <<>>)
     \o (IF returnsInBlock THEN <<>>
         ELSE << Probe("pathExists", <<importPath>>, exists) >>
              \o (IF readsPackage THEN probesOfManifest(packageFullPath) ELSE <<>>))

probesOfImportPath(url, resolvedPath, importPath) ==
  probesOfSteps(url, resolvedPath, importPath,
                pathExists(<<importPath>>),
                tryToFindFile(PathJoin(<<importPath, <<"index">>>>), STYLE_EXTENSIONS),
                extractMainPathFromPackageJson(importPath),
                tryToFindFile(importPath, STYLE_EXTENSIONS),
                getPackagePath(url))

probesInRoot(url, resolvedPath) ==
  IF ~ExistsSync(resolvedPath) THEN <<>>
  ELSE probesOfImportPath(url, resolvedPath,
                          PathRelative(cwd, cwd, PathJoin(<<resolvedPath, url>>)))

resolvePathProbes(url, includePath) ==
  IF includePath = NUMBER THEN <<>>
  ELSE probesInRoot(url, PathToFileURL(cwd, includePath))

\* Probe i of a log is a directory test that no existence test of the same
\* path, answered with true, precedes.
Unguarded(log, i) ==
  /\ log[i].fn = "pathIsDirectory"
  /\ ~\E j \in 1..(i - 1) : /\ log[j].fn = "pathExists"
                            /\ log[j].path = log[i].path
                            /\ log[j].result = TRUE

====
